---- MODULE Spec2Model ----
(***************************************************************************)
(* giganto: the typed configuration (src/settings.rs) and the GraphQL      *)
(* status / configuration API with its TOML document helpers               *)
(* (src/graphql/status.rs).                                                *)
(*                                                                         *)
(* A TOML text is modelled as the table of its top-level keys; a value is a *)
(* record [ty, s, n, a] (string, integer, inline array of inline tables,   *)
(* array of tables).  A text that is not TOML at all has syntax_ok = FALSE.*)
(***************************************************************************)
EXTENDS Integers, Sequences, FiniteSets, TLC

VARIABLES
    is_local,     \* ctx.data::<bool>(): the process was started from a local file
    settings,     \* ctx.data::<Settings>(): the live Settings
    calls,        \* the setConfig calls made so far, each with its result
    tasks,        \* the delivery tasks set_config spawned (tokio::spawn)
    chan,         \* the reload channel: drafts sent and not yet received
    rx_open,      \* the reload consumer still holds the Receiver
    received,     \* the drafts the reload consumer has taken from the channel
    errlog,       \* number of "Failed to send config" error! lines
    query,        \* the result of the last config() query
    notify,       \* TerminateNotify, RebootNotify, PowerOffNotify and their waiter
    lifecycle,    \* the last lifecycle mutation, its result, how many were made
    doc,          \* the toml_edit document under edit
    prev_doc,     \* the document as it was before the last editor operation
    edit,         \* the last editor operation, its input and its result
    loaded,       \* the last construction of a Config from a text, and its result
    file,         \* the configuration file at the path write_toml_file is given
    writer        \* where the running write_toml_file call stands, and its result

apiVars == <<calls, tasks, chan, rx_open, received, errlog>>
ctlVars == <<query, notify, lifecycle>>
docVars == <<doc, prev_doc, edit>>
ioVars == <<loaded, file, writer>>
vars == <<is_local, settings, apiVars, ctlVars, docVars, ioVars>>

(* ---------------------------------------------------------------------- *)
(* Bounds                                                                  *)
(* ---------------------------------------------------------------------- *)
MaxCalls == 2
ChannelCap == 1
MaxFires == 2
TickMs == 50

(* ---------------------------------------------------------------------- *)
(* TOML values and texts                                                   *)
(* ---------------------------------------------------------------------- *)
TStr(s) == [ty |-> "str", s |-> s, n |-> 0, a |-> <<>>]
TInt(n) == [ty |-> "int", s |-> "", n |-> n, a |-> <<>>]
TArr(a) == [ty |-> "arr", s |-> "", n |-> 0, a |-> a]
TAot(a) == [ty |-> "aot", s |-> "", n |-> 0, a |-> a]
NoneItem == [ty |-> "none", s |-> "", n |-> 0, a |-> <<>>]

NoItems == [k \in {} |-> NoneItem]
Text(items) == [syntax_ok |-> TRUE, items |-> items]
SyntaxErrorText == [syntax_ok |-> FALSE, items |-> NoItems]

Has(items, k) == k \in DOMAIN items /\ items[k].ty # "none"
Without(items, k) == [x \in (DOMAIN items) \ {k} |-> items[x]]
With(items, k, v) == (k :> v) @@ items

MandatoryFields ==
    {"ingest_srv_addr", "publish_srv_addr", "data_dir", "retention",
     "graphql_srv_addr", "log_dir", "export_dir", "max_open_files",
     "max_mb_of_level_base", "num_of_thread", "max_sub_compactions",
     "ack_transmission"}
OptionalFields == {"addr_to_peers", "peers"}
ConfigFields == MandatoryFields \cup OptionalFields

(* ---------------------------------------------------------------------- *)
(* Socket addresses: "IP:PORT" strings and std::net::SocketAddr            *)
(* ---------------------------------------------------------------------- *)
DEFAULT_INGEST_SRV_ADDR == "[::]:38370"
DEFAULT_PUBLISH_SRV_ADDR == "[::]:38371"
DEFAULT_GRAPHQL_SRV_ADDR == "[::]:8442"
DEFAULT_INVALID_ADDR_TO_PEERS == "254.254.254.254:38383"
DEFAULT_RETENTION == "100d"

Addr(ip, port) == [ip |-> ip, port |-> port]
NoAddr == Addr("", 0)

\* The spellings the model knows.  Several spellings name one address; a
\* string outside the table (a host name, the empty string) is no address.
AddrSpellings ==
    ("0.0.0.0:38370" :> Addr("0.0.0.0", 38370)) @@
    ("0.0.0.0:38371" :> Addr("0.0.0.0", 38371)) @@
    ("127.0.0.1:8442" :> Addr("127.0.0.1", 8442)) @@
    ("127.0.0.1:48383" :> Addr("127.0.0.1", 48383)) @@
    ("127.0.0.1:60192" :> Addr("127.0.0.1", 60192)) @@
    ("127.0.0.1:60193" :> Addr("127.0.0.1", 60193)) @@
    ("254.254.254.254:38383" :> Addr("254.254.254.254", 38383)) @@
    ("[::]:38370" :> Addr("::", 38370)) @@
    ("[0:0:0:0:0:0:0:0]:38370" :> Addr("::", 38370)) @@
    ("[::]:38371" :> Addr("::", 38371)) @@
    ("[::]:8442" :> Addr("::", 8442))
NonCanonicalSpellings == {"[0:0:0:0:0:0:0:0]:38370"}

\* str::parse::<SocketAddr>()
ParseSocketAddr(s) ==
    IF s \in DOMAIN AddrSpellings
    THEN [ok |-> TRUE, v |-> AddrSpellings[s]]
    ELSE [ok |-> FALSE, v |-> NoAddr]

\* SocketAddr's Display: the canonical spelling
DisplaySocketAddr(addr) ==
    CHOOSE s \in (DOMAIN AddrSpellings) \ NonCanonicalSpellings :
        AddrSpellings[s] = addr

(* ---------------------------------------------------------------------- *)
(* Durations: humantime strings and std::time::Duration (whole seconds)    *)
(* ---------------------------------------------------------------------- *)
Tok(n, u) == [n |-> n, u |-> u]

\* The duration strings the model knows, as humantime reads them: a number
\* and a unit per item.  A string outside the table is no duration.
DurationSpellings ==
    ("100d" :> <<Tok(100, "d")>>) @@
    ("3months 8days 16h 19m 12s" :>
        <<Tok(3, "M"), Tok(8, "d"), Tok(16, "h"), Tok(19, "m"), Tok(12, "s")>>) @@
    ("24h" :> <<Tok(24, "h")>>) @@
    ("1day" :> <<Tok(1, "d")>>) @@
    ("0s" :> <<Tok(0, "s")>>)

UnitSecs(u) ==
    CASE u = "y" -> 31557600
      [] u = "M" -> 2630016
      [] u = "d" -> 86400
      [] u = "h" -> 3600
      [] u = "m" -> 60
      [] OTHER -> 1

RECURSIVE SumToks(_)
SumToks(toks) ==
    IF toks = <<>> THEN 0
    ELSE Head(toks).n * UnitSecs(Head(toks).u) + SumToks(Tail(toks))

\* humantime::parse_duration
ParseDuration(s) ==
    IF s \in DOMAIN DurationSpellings
    THEN [ok |-> TRUE, v |-> SumToks(DurationSpellings[s])]
    ELSE [ok |-> FALSE, v |-> 0]

DropZero(toks) == SelectSeq(toks, LAMBDA t : t.n # 0)

\* humantime::format_duration: years, months, days, h, m, s, zero items left out
DurationToks(secs) ==
    LET years == secs \div UnitSecs("y")
        ydays == secs % UnitSecs("y")
        months == ydays \div UnitSecs("M")
        mdays == ydays % UnitSecs("M")
        days == mdays \div UnitSecs("d")
        dsecs == mdays % UnitSecs("d")
        hours == dsecs \div UnitSecs("h")
        minutes == (dsecs % UnitSecs("h")) \div UnitSecs("m")
        seconds == dsecs % UnitSecs("m")
    IN  IF secs = 0 THEN <<Tok(0, "s")>>
        ELSE DropZero(<<Tok(years, "y"), Tok(months, "M"), Tok(days, "d"),
                        Tok(hours, "h"), Tok(minutes, "m"), Tok(seconds, "s")>>)

FormatDuration(secs) ==
    CHOOSE s \in DOMAIN DurationSpellings : DurationSpellings[s] = DurationToks(secs)

(* ---------------------------------------------------------------------- *)
(* The typed Config and its serde deserialization (toml::from_str)         *)
(* ---------------------------------------------------------------------- *)
Some(v) == [some |-> TRUE, v |-> v]
NoneAddr == [some |-> FALSE, v |-> NoAddr]
NonePeers == [some |-> FALSE, v |-> {}]

PeerIdentity(addr, hostname) == [addr |-> addr, hostname |-> hostname]
PeerTable(addr, hostname) == [addr |-> addr, hostname |-> hostname]

Range(seq) == {seq[i] : i \in DOMAIN seq}

Ok(v) == [ok |-> TRUE, err |-> "", v |-> v]
Err(e, dummy) == [ok |-> FALSE, err |-> e, v |-> dummy]

\* deserialize_socket_addr: a string that parses as IP:PORT
deserialize_socket_addr(items, k) ==
    IF ~Has(items, k) THEN Err("missing field", NoAddr)
    ELSE IF items[k].ty # "str" THEN Err("invalid type", NoAddr)
    ELSE IF ~ParseSocketAddr(items[k].s).ok THEN Err("invalid address", NoAddr)
    ELSE Ok(ParseSocketAddr(items[k].s).v)

\* Mutant: the sentinel and the empty string are parsed like any other string
deserialize_peer_addr_strict(items, k) ==
    IF ~Has(items, k) THEN Ok(NoneAddr)
    ELSE IF items[k].ty # "str" THEN Err("invalid type", NoneAddr)
    ELSE IF ~ParseSocketAddr(items[k].s).ok THEN Err("invalid address", NoneAddr)
    ELSE Ok(Some(ParseSocketAddr(items[k].s).v))

\* Mutant: only the sentinel is None, the empty string is parsed
deserialize_peer_addr_sentinel_only(items, k) ==
    IF ~Has(items, k) THEN Ok(NoneAddr)
    ELSE IF items[k].ty # "str" THEN Err("invalid type", NoneAddr)
    ELSE IF items[k].s = DEFAULT_INVALID_ADDR_TO_PEERS THEN Ok(NoneAddr)
    ELSE IF ~ParseSocketAddr(items[k].s).ok THEN Err("invalid address", NoneAddr)
    ELSE Ok(Some(ParseSocketAddr(items[k].s).v))

\* deserialize_peer_addr: absent, empty and the sentinel are None
deserialize_peer_addr(items, k) ==
    IF ~Has(items, k) THEN Ok(NoneAddr)
    ELSE IF items[k].ty # "str" THEN Err("invalid type", NoneAddr)
    ELSE IF items[k].s = DEFAULT_INVALID_ADDR_TO_PEERS \/ items[k].s = ""
         THEN Ok(NoneAddr)
    ELSE IF ~ParseSocketAddr(items[k].s).ok THEN Err("invalid address", NoneAddr)
    ELSE Ok(Some(ParseSocketAddr(items[k].s).v))

\* PathBuf: any string
deserialize_path(items, k) ==
    IF ~Has(items, k) THEN Err("missing field", "")
    ELSE IF items[k].ty # "str" THEN Err("invalid type", "")
    ELSE Ok(items[k].s)

\* humantime_serde: a string humantime parses
deserialize_duration(items, k) ==
    IF ~Has(items, k) THEN Err("missing field", 0)
    ELSE IF items[k].ty # "str" THEN Err("invalid type", 0)
    ELSE IF ~ParseDuration(items[k].s).ok THEN Err("invalid duration", 0)
    ELSE Ok(ParseDuration(items[k].s).v)

\* The model's integers end at i32's range, so a u32 or a u64 field is cut
\* off only below, at 0.
I32Max == 2147483647
I32Min == -I32Max - 1
U16Max == 65535

\* i32, u64, u32, u16: a TOML integer (an i64) within the field's range
deserialize_int(items, k, lo, hi) ==
    IF ~Has(items, k) THEN Err("missing field", 0)
    ELSE IF items[k].ty # "int" THEN Err("invalid type", 0)
    ELSE IF items[k].n < lo \/ items[k].n > hi THEN Err("out of range", 0)
    ELSE Ok(items[k].n)

\* Option<HashSet<PeerIdentity>>: an array (inline or of tables) of {addr, hostname}
deserialize_peers(items, k) ==
    IF ~Has(items, k) THEN Ok(NonePeers)
    ELSE IF items[k].ty \notin {"arr", "aot"} THEN Err("invalid type", NonePeers)
    ELSE IF \E t \in Range(items[k].a) : ~ParseSocketAddr(t.addr).ok
         THEN Err("invalid address", NonePeers)
    ELSE Ok(Some({PeerIdentity(ParseSocketAddr(t.addr).v, t.hostname) :
                    t \in Range(items[k].a)}))

NoConfig ==
    [ingest_srv_addr |-> NoAddr, publish_srv_addr |-> NoAddr, data_dir |-> "",
     retention |-> 0, graphql_srv_addr |-> NoAddr, log_dir |-> "",
     export_dir |-> "", max_open_files |-> 0, max_mb_of_level_base |-> 0,
     num_of_thread |-> 0, max_sub_compactions |-> 0, addr_to_peers |-> NoneAddr,
     peers |-> NonePeers, ack_transmission |-> 0]

\* #[derive(Deserialize)] for Config, over the keys of a parsed TOML table
DeserializeConfig(items) ==
    LET ingest == deserialize_socket_addr(items, "ingest_srv_addr")
        publish == deserialize_socket_addr(items, "publish_srv_addr")
        data == deserialize_path(items, "data_dir")
        ret == deserialize_duration(items, "retention")
        graphql == deserialize_socket_addr(items, "graphql_srv_addr")
        log == deserialize_path(items, "log_dir")
        export == deserialize_path(items, "export_dir")
        files == deserialize_int(items, "max_open_files", I32Min, I32Max)
        base == deserialize_int(items, "max_mb_of_level_base", 0, I32Max)
        threads == deserialize_int(items, "num_of_thread", I32Min, I32Max)
        subc == deserialize_int(items, "max_sub_compactions", 0, I32Max)
        topeers == deserialize_peer_addr(items, "addr_to_peers")
        peers == deserialize_peers(items, "peers")
        ack == deserialize_int(items, "ack_transmission", 0, U16Max)
        errs == SelectSeq(<<ingest.err, publish.err, data.err, ret.err,
                            graphql.err, log.err, export.err, files.err,
                            base.err, threads.err, subc.err, topeers.err,
                            peers.err, ack.err>>, LAMBDA e : e # "")
    IN  IF errs # <<>>
        THEN [ok |-> FALSE, err |-> Head(errs), config |-> NoConfig]
        ELSE [ok |-> TRUE, err |-> "",
              config |->
                [ingest_srv_addr |-> ingest.v, publish_srv_addr |-> publish.v,
                 data_dir |-> data.v, retention |-> ret.v,
                 graphql_srv_addr |-> graphql.v, log_dir |-> log.v,
                 export_dir |-> export.v, max_open_files |-> files.v,
                 max_mb_of_level_base |-> base.v, num_of_thread |-> threads.v,
                 max_sub_compactions |-> subc.v, addr_to_peers |-> topeers.v,
                 peers |-> peers.v, ack_transmission |-> ack.v]]

(* ---------------------------------------------------------------------- *)
(* Settings: construction over the defaults, and rendering                 *)
(* ---------------------------------------------------------------------- *)
\* default_config_builder(): every key but peers has a default
DefaultItems ==
    ("ingest_srv_addr" :> TStr(DEFAULT_INGEST_SRV_ADDR)) @@
    ("publish_srv_addr" :> TStr(DEFAULT_PUBLISH_SRV_ADDR)) @@
    ("graphql_srv_addr" :> TStr(DEFAULT_GRAPHQL_SRV_ADDR)) @@
    ("data_dir" :> TStr("~/.local/share/db")) @@
    ("retention" :> TStr(DEFAULT_RETENTION)) @@
    ("log_dir" :> TStr("~/.local/share/logs/apps")) @@
    ("export_dir" :> TStr("~/.local/share/export")) @@
    ("max_open_files" :> TInt(8000)) @@
    ("max_mb_of_level_base" :> TInt(512)) @@
    ("num_of_thread" :> TInt(8)) @@
    ("max_sub_compactions" :> TInt(2)) @@
    ("addr_to_peers" :> TStr(DEFAULT_INVALID_ADDR_TO_PEERS)) @@
    ("ack_transmission" :> TInt(1024))

\* Mutant: the draft is laid over the defaults, as from_server does
TomlFromStrOverDefaults(text) ==
    IF ~text.syntax_ok
    THEN [ok |-> FALSE, err |-> "syntax", config |-> NoConfig]
    ELSE DeserializeConfig(text.items @@ DefaultItems)

\* toml::from_str::<Config>(&draft): no defaults are merged in
TomlFromStr(text) ==
    IF ~text.syntax_ok
    THEN [ok |-> FALSE, err |-> "syntax", config |-> NoConfig]
    ELSE DeserializeConfig(text.items)

\* Settings::from_server: the text's keys laid over the defaults
from_server(text) ==
    IF ~text.syntax_ok
    THEN [ok |-> FALSE, settings |-> [config |-> NoConfig, cfg_path |-> "None"]]
    ELSE LET r == DeserializeConfig(text.items @@ DefaultItems)
         IN  [ok |-> r.ok, settings |-> [config |-> r.config, cfg_path |-> "None"]]

\* The orders in which a HashSet may be iterated
Orders(S) == {seq \in [1..Cardinality(S) -> S] : Range(seq) = S}

\* The mandatory keys, as toml::to_string writes them
SerializeMandatory(config) ==
    ("ingest_srv_addr" :> TStr(DisplaySocketAddr(config.ingest_srv_addr))) @@
    ("publish_srv_addr" :> TStr(DisplaySocketAddr(config.publish_srv_addr))) @@
    ("data_dir" :> TStr(config.data_dir)) @@
    ("retention" :> TStr(FormatDuration(config.retention))) @@
    ("graphql_srv_addr" :> TStr(DisplaySocketAddr(config.graphql_srv_addr))) @@
    ("log_dir" :> TStr(config.log_dir)) @@
    ("export_dir" :> TStr(config.export_dir)) @@
    ("max_open_files" :> TInt(config.max_open_files)) @@
    ("max_mb_of_level_base" :> TInt(config.max_mb_of_level_base)) @@
    ("num_of_thread" :> TInt(config.num_of_thread)) @@
    ("max_sub_compactions" :> TInt(config.max_sub_compactions)) @@
    ("ack_transmission" :> TInt(config.ack_transmission))

\* A peer set as TOML tables, in the order ord
PeerTables(ord) ==
    [i \in DOMAIN ord |-> PeerTable(DisplaySocketAddr(ord[i].addr), ord[i].hostname)]

\* Mutant: a None peer set is written as an empty array
SerializeConfigEmptyPeers(config, ord) ==
    Text(SerializeMandatory(config)
         @@ (IF config.addr_to_peers.some
             THEN ("addr_to_peers" :> TStr(DisplaySocketAddr(config.addr_to_peers.v)))
             ELSE NoItems)
         @@ (IF ord = <<>> THEN ("peers" :> TArr(<<>>))
             ELSE ("peers" :> TAot(PeerTables(ord)))))

\* Mutant: a None peer address is written as the sentinel
SerializeConfigSentinel(config, ord) ==
    Text(SerializeMandatory(config)
         @@ ("addr_to_peers" :>
                TStr(IF config.addr_to_peers.some
                     THEN DisplaySocketAddr(config.addr_to_peers.v)
                     ELSE DEFAULT_INVALID_ADDR_TO_PEERS))
         @@ (IF ~config.peers.some THEN NoItems
             ELSE IF ord = <<>> THEN ("peers" :> TArr(<<>>))
             ELSE ("peers" :> TAot(PeerTables(ord)))))

\* toml::to_string(&config) with the peer set iterated in the order ord:
\* a None field is left out, a non-empty array of structs is written as
\* [[peers]] tables, an empty one as peers = []
SerializeConfig(config, ord) ==
    Text(SerializeMandatory(config)
         @@ (IF config.addr_to_peers.some
             THEN ("addr_to_peers" :> TStr(DisplaySocketAddr(config.addr_to_peers.v)))
             ELSE NoItems)
         @@ (IF ~config.peers.some THEN NoItems
             ELSE IF ord = <<>> THEN ("peers" :> TArr(<<>>))
             ELSE ("peers" :> TAot(PeerTables(ord)))))

\* Settings::to_toml_string: every text it may produce
to_toml_string(s) ==
    {SerializeConfig(s.config, ord) : ord \in Orders(s.config.peers.v)}

(* ---------------------------------------------------------------------- *)
(* Inputs: the Settings a process may run with, the drafts a caller sends  *)
(* ---------------------------------------------------------------------- *)
Node2 == PeerTable("127.0.0.1:60192", "node2")
Node3 == PeerTable("127.0.0.1:60193", "node3")

\* tests::test_toml_content
TestTomlItems ==
    ("ingest_srv_addr" :> TStr("0.0.0.0:38370")) @@
    ("publish_srv_addr" :> TStr("0.0.0.0:38371")) @@
    ("graphql_srv_addr" :> TStr("127.0.0.1:8442")) @@
    ("data_dir" :> TStr("tests/data")) @@
    ("retention" :> TStr("100d")) @@
    ("log_dir" :> TStr("/data/logs/apps")) @@
    ("export_dir" :> TStr("tests/export")) @@
    ("ack_transmission" :> TInt(1024)) @@
    ("max_open_files" :> TInt(8000)) @@
    ("max_mb_of_level_base" :> TInt(512)) @@
    ("num_of_thread" :> TInt(8)) @@
    ("max_sub_compactions" :> TInt(2)) @@
    ("addr_to_peers" :> TStr("127.0.0.1:48383")) @@
    ("peers" :> TArr(<<Node2>>))
TestToml == Text(TestTomlItems)

\* The texts a process is started from: nothing but the defaults, the
\* defaults with an empty peer list, the test's text, and a text with two peers, an empty peer address and a retention
\* written in hours
ServerTexts ==
    {Text(NoItems),
     Text("peers" :> TArr(<<>>)),
     TestToml,
     Text(With(With(With(TestTomlItems, "peers", TArr(<<Node2, Node3>>)),
                    "addr_to_peers", TStr("")), "retention", TStr("24h")))}

ValidSettings == {from_server(t).settings : t \in {x \in ServerTexts : from_server(x).ok}}

\* The drafts a caller may send while the live Settings is s: its own
\* rendering, the rendering with one field changed, the test's text, and
\* texts that are not TOML, name no field or hold a host name for an address
Drafts(s) ==
    to_toml_string(s)
    \cup {Text(With(t.items, "ack_transmission", TInt(512))) : t \in to_toml_string(s)}
    \cup {TestToml, Text(NoItems), SyntaxErrorText,
          Text(With(TestTomlItems, "ingest_srv_addr", TStr("localhost:38370")))}

\* Drafts, worked out once for every Settings
DraftsOf == [s \in ValidSettings |-> Drafts(s)]

\* Drafts that set the peer address of a rendering of s to the sentinel or to
\* the empty string
SentinelDrafts(s) ==
    {Text(With(t.items, "addr_to_peers", TStr(v))) :
        t \in to_toml_string(s), v \in {DEFAULT_INVALID_ADDR_TO_PEERS, ""}}

\* Drafts that leave out one mandatory field of the test's text, or every field
PartialDrafts ==
    {Text(Without(TestTomlItems, k)) : k \in MandatoryFields} \cup {Text(NoItems)}

\* What a caller may send besides: the test's text as it is
MoreDrafts(s) == SentinelDrafts(s) \cup PartialDrafts \cup {TestToml}
MoreDraftsOf == [s \in ValidSettings |-> MoreDrafts(s)]
SentinelDraftsOf == [s \in ValidSettings |-> SentinelDrafts(s)]

(* ---------------------------------------------------------------------- *)
(* ConfigMutation::set_config and the delivery task it spawns              *)
(* ---------------------------------------------------------------------- *)
GRAPHQL_REBOOT_DELAY == 100

\* Mutant: the local-mode gate is missing
SetConfigResultNoGate(local, s, draft) ==
    IF ~TomlFromStr(draft).ok THEN "parse_error"
    ELSE IF s.config = TomlFromStr(draft).config THEN "no_change"
    ELSE "true"

\* Mutant: a parse failure is not returned, the draft is compared as it is
SetConfigResultSwallow(local, s, draft) ==
    IF local THEN "false"
    ELSE IF s.config = TomlFromStr(draft).config THEN "no_change"
    ELSE "true"

\* Mutant: a proposal is turned down while an earlier delivery is under way
SetConfigResultSerialized(local, s, draft) ==
    IF local THEN "false"
    ELSE IF ~TomlFromStr(draft).ok THEN "parse_error"
    ELSE IF s.config = TomlFromStr(draft).config THEN "no_change"
    ELSE IF \E j \in DOMAIN tasks : tasks[j].pc \in {"sleep", "send"} THEN "no_change"
    ELSE "true"

\* Mutant: the draft is parsed and compared first, the mode looked at last
SetConfigResultGateLast(local, s, draft) ==
    IF ~TomlFromStr(draft).ok THEN "parse_error"
    ELSE IF s.config = TomlFromStr(draft).config THEN "no_change"
    ELSE IF local THEN "false"
    ELSE "true"

\* set_config up to its return value: "false" is Ok(false), "true" is Ok(true),
\* "parse_error" the error of toml::from_str, "no_change" Err("No changes")
SetConfigResult(local, s, draft) ==
    IF local THEN "false"
    ELSE IF ~TomlFromStr(draft).ok THEN "parse_error"
    ELSE IF s.config = TomlFromStr(draft).config THEN "no_change"
    ELSE "true"

\* Mutant: the delivery task is spawned twice
SpawnedTasksTwice(id, draft, result) ==
    IF result = "true"
    THEN <<[call |-> id, draft |-> draft, pc |-> "sleep",
            timer |-> GRAPHQL_REBOOT_DELAY, attempts |-> 0],
           [call |-> id, draft |-> draft, pc |-> "sleep",
            timer |-> GRAPHQL_REBOOT_DELAY, attempts |-> 0]>>
    ELSE <<>>

\* The tasks set_config spawns for call number id: one, holding a clone of the
\* draft, when the draft is accepted
SpawnedTasks(id, draft, result) ==
    IF result = "true"
    THEN <<[call |-> id, draft |-> draft, pc |-> "sleep",
            timer |-> GRAPHQL_REBOOT_DELAY, attempts |-> 0]>>
    ELSE <<>>

\* Mutant: an accepted draft is made the live Config on the spot
SetConfigApplies(draft) ==
    /\ Len(calls) < MaxCalls
    /\ LET id == Len(calls) + 1
           result == SetConfigResult(is_local, settings, draft)
       IN  /\ calls' = Append(calls, [draft |-> draft, result |-> result,
                                      returned |-> result # "true"])
           /\ tasks' = tasks \o SpawnedTasks(id, draft, result)
           /\ settings' = IF result = "true"
                          THEN [settings EXCEPT !.config = TomlFromStr(draft).config]
                          ELSE settings
    /\ UNCHANGED <<is_local, chan, rx_open, received, errlog,
                   ctlVars, docVars, ioVars>>

\* set_config has no await: the gate, the parse, the comparison and
\* tokio::spawn are one step.  An accepted call has then still to hand Ok(true)
\* to its caller, while the spawned task is already running on the runtime.
SetConfig(draft) ==
    /\ Len(calls) < MaxCalls
    /\ LET id == Len(calls) + 1
           result == SetConfigResult(is_local, settings, draft)
       IN  /\ calls' = Append(calls, [draft |-> draft, result |-> result,
                                      returned |-> result # "true"])
           /\ tasks' = tasks \o SpawnedTasks(id, draft, result)
    /\ UNCHANGED <<is_local, settings, chan, rx_open, received, errlog,
                   ctlVars, docVars, ioVars>>

\* info!("Draft applied."); Ok(true)
SetConfigReturn(i) ==
    /\ i \in DOMAIN calls
    /\ ~calls[i].returned
    /\ calls' = [calls EXCEPT ![i].returned = TRUE]
    /\ UNCHANGED <<is_local, settings, tasks, chan, rx_open, received, errlog,
                   ctlVars, docVars, ioVars>>

Max(a, b) == IF a > b THEN a ELSE b
Min(a, b) == IF a < b THEN a ELSE b

\* TickMs milliseconds pass for every task in tokio::time::sleep
Tick ==
    /\ \E j \in DOMAIN tasks : tasks[j].pc = "sleep" /\ tasks[j].timer > 0
    /\ tasks' = [j \in DOMAIN tasks |->
                   IF tasks[j].pc = "sleep"
                   THEN [tasks[j] EXCEPT !.timer = Max(0, tasks[j].timer - TickMs)]
                   ELSE tasks[j]]
    /\ UNCHANGED <<is_local, settings, calls, chan, rx_open, received, errlog,
                   ctlVars, docVars, ioVars>>

\* The sleep is over: the task calls tx_clone.send(draft_clone)
TaskWake(j) ==
    /\ j \in DOMAIN tasks
    /\ tasks[j].pc = "sleep" /\ tasks[j].timer = 0
    /\ tasks' = [tasks EXCEPT ![j].pc = "send", ![j].attempts = @ + 1]
    /\ UNCHANGED <<is_local, settings, calls, chan, rx_open, received, errlog,
                   ctlVars, docVars, ioVars>>

\* Mutant: a send that fails on a closed channel is tried again after the delay
TaskSendRetry(j) ==
    /\ j \in DOMAIN tasks
    /\ tasks[j].pc = "send"
    /\ \/ /\ ~rx_open
          /\ tasks' = [tasks EXCEPT ![j].pc = "sleep",
                                    ![j].timer = GRAPHQL_REBOOT_DELAY]
          /\ errlog' = errlog + 1
          /\ chan' = chan
       \/ /\ rx_open
          /\ Len(chan) < ChannelCap
          /\ tasks' = [tasks EXCEPT ![j].pc = "sent"]
          /\ chan' = Append(chan, [call |-> tasks[j].call, draft |-> tasks[j].draft])
          /\ errlog' = errlog
    /\ UNCHANGED <<is_local, settings, calls, rx_open, received, ctlVars, docVars, ioVars>>

\* Mutant: try_send in place of send: a full channel drops the draft unlogged
TaskSendNoWait(j) ==
    /\ j \in DOMAIN tasks
    /\ tasks[j].pc = "send"
    /\ \/ /\ ~rx_open
          /\ tasks' = [tasks EXCEPT ![j].pc = "failed"]
          /\ errlog' = errlog + 1
          /\ chan' = chan
       \/ /\ rx_open
          /\ Len(chan) < ChannelCap
          /\ tasks' = [tasks EXCEPT ![j].pc = "sent"]
          /\ chan' = Append(chan, [call |-> tasks[j].call, draft |-> tasks[j].draft])
          /\ errlog' = errlog
       \/ /\ rx_open
          /\ Len(chan) >= ChannelCap
          /\ tasks' = [tasks EXCEPT ![j].pc = "dropped"]
          /\ chan' = chan
          /\ errlog' = errlog
    /\ UNCHANGED <<is_local, settings, calls, rx_open, received, ctlVars, docVars, ioVars>>

\* Sender::send(..).await: an error once the receiver is gone, else the draft
\* is queued as soon as the bounded channel has room.  A queued message is
\* the String alone; call is kept beside it to tell two equal drafts apart.
TaskSend(j) ==
    /\ j \in DOMAIN tasks
    /\ tasks[j].pc = "send"
    /\ \/ /\ ~rx_open
          /\ tasks' = [tasks EXCEPT ![j].pc = "failed"]
          /\ errlog' = errlog + 1
          /\ chan' = chan
       \/ /\ rx_open
          /\ Len(chan) < ChannelCap
          /\ tasks' = [tasks EXCEPT ![j].pc = "sent"]
          /\ chan' = Append(chan, [call |-> tasks[j].call, draft |-> tasks[j].draft])
          /\ errlog' = errlog
    /\ UNCHANGED <<is_local, settings, calls, rx_open, received, ctlVars, docVars, ioVars>>

\* The reload consumer takes the next draft (Receiver::recv)
ConsumerRecv ==
    /\ rx_open
    /\ chan # <<>>
    /\ received' = Append(received, Head(chan))
    /\ chan' = Tail(chan)
    /\ UNCHANGED <<is_local, settings, calls, tasks, rx_open, errlog,
                   ctlVars, docVars, ioVars>>

\* The reload consumer drops the Receiver, and what is queued with it
ConsumerClose ==
    /\ rx_open
    /\ rx_open' = FALSE
    /\ chan' = <<>>
    /\ UNCHANGED <<is_local, settings, calls, tasks, received, errlog,
                   ctlVars, docVars, ioVars>>

(* ---------------------------------------------------------------------- *)
(* Initial states and the specification of the reconfiguration API         *)
(* ---------------------------------------------------------------------- *)
Signals == {"stop", "reboot", "shutdown"}
NoQuery == [ok |-> FALSE, err |-> "no query", config |-> NoConfig]
NoNotify == [s \in Signals |-> [permit |-> FALSE, waiting |-> FALSE, wakeups |-> 0]]
NoLifecycle == [op |-> "none", ok |-> TRUE, value |-> FALSE, count |-> 0]
NoInput == [some |-> FALSE, v |-> <<>>]
NoEdit == [op |-> "none", input |-> NoInput, ok |-> TRUE, err |-> ""]

InitApi ==
    /\ calls = <<>>
    /\ tasks = <<>>
    /\ chan = <<>>
    /\ rx_open = TRUE
    /\ received = <<>>
    /\ errlog = 0

InitCtl ==
    /\ query = NoQuery
    /\ notify = NoNotify
    /\ lifecycle = NoLifecycle

InitDoc ==
    /\ doc = NoItems
    /\ prev_doc = NoItems
    /\ edit = NoEdit

\* Nothing constructed from a text yet, no file at the path, no write begun
NoLoad == [op |-> "none", text |-> Text(NoItems), ok |-> TRUE, err |-> "",
           config |-> NoConfig]
NoContent == [lines |-> <<>>, newline |-> FALSE]
NoFile == [exists |-> FALSE, writable |-> FALSE, content |-> NoContent]
NoWriter == [pc |-> "idle", ok |-> TRUE, err |-> "", before |-> NoFile]

InitIo ==
    /\ loaded = NoLoad
    /\ file = NoFile
    /\ writer = NoWriter

Init ==
    /\ is_local \in BOOLEAN
    /\ settings \in ValidSettings
    /\ InitApi
    /\ InitCtl
    /\ InitDoc
    /\ InitIo

Next ==
    \/ \E d \in DraftsOf[settings] : SetConfig(d)
    \/ \E i \in 1..MaxCalls : SetConfigReturn(i)
    \/ Tick
    \/ \E j \in 1..MaxCalls : TaskWake(j)
    \/ \E j \in 1..MaxCalls : TaskSend(j)
    \/ ConsumerRecv
    \/ ConsumerClose

Spec == Init /\ [][Next]_vars

\* The runtime keeps running a spawned task: time passes for a sleeping task,
\* a task whose sleep is over is polled, a send that can complete does.  The
\* reload consumer takes a draft that is waiting for it.
Fairness ==
    /\ WF_vars(Tick)
    /\ \A j \in 1..MaxCalls : WF_vars(TaskWake(j))
    /\ \A j \in 1..MaxCalls : WF_vars(TaskSend(j))
    /\ WF_vars(ConsumerRecv)

\* A remotely managed process started from the defaults, and the drafts its
\* callers send: the test's text, the rendering of the live Config, and a
\* text that is not TOML
DefaultSettings == from_server(Text(NoItems)).settings
LiveDrafts == {TestToml, SyntaxErrorText} \cup to_toml_string(DefaultSettings)

InitLive ==
    /\ is_local = FALSE
    /\ settings = DefaultSettings
    /\ InitApi
    /\ InitCtl
    /\ InitDoc
    /\ InitIo

NextLive ==
    \/ \E d \in LiveDrafts : SetConfig(d)
    \/ \E i \in 1..MaxCalls : SetConfigReturn(i)
    \/ Tick
    \/ \E j \in 1..MaxCalls : TaskWake(j)
    \/ \E j \in 1..MaxCalls : TaskSend(j)
    \/ ConsumerRecv
    \/ ConsumerClose

SpecLive == InitLive /\ [][NextLive]_vars /\ Fairness

\* The reconfiguration API under drafts that differ from a valid text in
\* their peer address or in a field left out
NextDrafts ==
    \/ \E d \in MoreDraftsOf[settings] : SetConfig(d)
    \/ \E i \in 1..MaxCalls : SetConfigReturn(i)
    \/ Tick
    \/ \E j \in 1..MaxCalls : TaskWake(j)
    \/ \E j \in 1..MaxCalls : TaskSend(j)
    \/ ConsumerRecv
    \/ ConsumerClose

SpecDrafts == Init /\ [][NextDrafts]_vars

(* ---------------------------------------------------------------------- *)
(* StatusQuery::config, and the lifecycle mutations stop, reboot, shutdown *)
(* ---------------------------------------------------------------------- *)
\* Mutant: the query is not gated
ConfigQueryNoGate(local, s) == [ok |-> TRUE, err |-> "", config |-> s.config]

\* StatusQuery::config
ConfigQuery(local, s) ==
    IF local
    THEN [ok |-> FALSE, err |-> "Config is local", config |-> NoConfig]
    ELSE [ok |-> TRUE, err |-> "", config |-> s.config]

Config ==
    /\ query' = ConfigQuery(is_local, settings)
    /\ UNCHANGED <<is_local, settings, apiVars, notify, lifecycle, docVars, ioVars>>

\* Mutant: firings are queued: one that finds a permit stored counts as a
\* wakeup of its own
NotifyOneQueued(n) ==
    IF n.waiting
    THEN [n EXCEPT !.waiting = FALSE, !.wakeups = Min(@ + 1, MaxFires)]
    ELSE IF n.permit
    THEN [n EXCEPT !.wakeups = Min(@ + 1, MaxFires)]
    ELSE [n EXCEPT !.permit = TRUE]

\* Mutant: notify_waiters in place of notify_one: a firing that finds no
\* waiter is dropped
NotifyOneLost(n) ==
    IF n.waiting
    THEN [n EXCEPT !.waiting = FALSE, !.wakeups = Min(@ + 1, MaxFires)]
    ELSE n

\* tokio's Notify::notify_one: a waiting task is woken, else one permit is
\* stored (a permit already stored stays the only one)
NotifyOne(n) ==
    IF n.waiting
    THEN [n EXCEPT !.waiting = FALSE, !.wakeups = Min(@ + 1, MaxFires)]
    ELSE [n EXCEPT !.permit = TRUE]

\* Mutant: the lifecycle mutations decline in local mode, as set_config does
LifecycleResultGated(local) == [ok |-> TRUE, value |-> ~local]

\* What stop, reboot and shutdown return: Ok(true), whatever the mode
LifecycleResult(local) == [ok |-> TRUE, value |-> TRUE]

\* The body the three mutations share: clone the Notify, notify_one, Ok(true)
Dispatch(sig) ==
    /\ notify' = [notify EXCEPT ![sig] = NotifyOne(@)]
    /\ lifecycle' = [op |-> sig,
                     ok |-> LifecycleResult(is_local).ok,
                     value |-> LifecycleResult(is_local).value,
                     count |-> Min(lifecycle.count + 1, MaxFires)]
    /\ UNCHANGED <<is_local, settings, apiVars, query, docVars, ioVars>>

Stop == Dispatch("stop")
Reboot == Dispatch("reboot")
Shutdown == Dispatch("shutdown")

\* The supervisor awaits Notify::notified() of one signal: a stored permit is
\* taken at once, else the supervisor waits until notify_one wakes it
SupervisorWait(sig) ==
    /\ ~notify[sig].waiting
    /\ notify' = [notify EXCEPT ![sig] =
                    IF @.permit
                    THEN [@ EXCEPT !.permit = FALSE, !.wakeups = Min(@ + 1, MaxFires)]
                    ELSE [@ EXCEPT !.waiting = TRUE]]
    /\ UNCHANGED <<is_local, settings, apiVars, query, lifecycle, docVars, ioVars>>

NextControl ==
    \/ Config
    \/ Stop
    \/ Reboot
    \/ Shutdown
    \/ \E sig \in Signals : SupervisorWait(sig)

SpecControl == Init /\ [][NextControl]_vars

\* A remotely managed process whose callers propose drafts and query the
\* configuration in any order
NextAdmin ==
    \/ NextLive
    \/ Config

SpecAdmin == InitLive /\ [][NextAdmin]_vars

(* ---------------------------------------------------------------------- *)
(* The document editor: settings_to_doc and insert_toml_peers              *)
(* ---------------------------------------------------------------------- *)
\* str::parse::<DocumentMut>(): the table of the text's keys
ParseDocument(text) == [ok |-> text.syntax_ok, doc |-> text.items]

\* DocumentMut's Display: items that are Item::None are not written
DocToString(d) == Text([k \in {x \in DOMAIN d : d[x].ty # "none"} |-> d[k]])

\* settings_to_doc: every document it may return
settings_to_doc(s) ==
    {ParseDocument(t).doc : t \in {x \in to_toml_string(s) : ParseDocument(x).ok}}

SettingsToDoc ==
    /\ \E d \in settings_to_doc(settings) : doc' = d
    /\ prev_doc' = doc
    /\ edit' = [op |-> "settings_to_doc", input |-> NoInput, ok |-> TRUE, err |-> ""]
    /\ UNCHANGED <<is_local, settings, apiVars, ctlVars, ioVars>>

\* doc["peers"] through IndexMut: a key the table lacks is entered as Item::None
IndexMut(d, k) == IF k \in DOMAIN d THEN d ELSE (k :> NoneItem) @@ d

\* Mutant: an empty string yields no value
AsValueNonEmpty(str) == [some |-> str # "", v |-> str]

\* value(String).as_value(): toml_edit::value makes an Item::Value of any string
AsValue(str) == [some |-> TRUE, v |-> str]

\* The loop of insert_toml_peers over what is left of peer_list: array is the
\* array as filled so far, which is what the document holds if the loop fails
RECURSIVE PushPeers(_, _)
PushPeers(array, peer_list) ==
    IF peer_list = <<>> THEN [ok |-> TRUE, err |-> "", array |-> array]
    ELSE LET peer == Head(peer_list)
             addr == AsValue(peer.addr)
             hostname == AsValue(peer.hostname)
         IN  IF addr.some /\ hostname.some
             THEN PushPeers(Append(array, PeerTable(addr.v, hostname.v)),
                            Tail(peer_list))
             ELSE [ok |-> FALSE,
                   err |-> "insert failed: peer addr, hostname option not found",
                   array |-> array]

\* Mutant: the array is not cleared before it is filled
insert_toml_peers_no_clear(d, input) ==
    IF ~input.some THEN [ok |-> TRUE, err |-> "", doc |-> d]
    ELSE LET indexed == IndexMut(d, "peers")
         IN  IF indexed["peers"].ty # "arr"
             THEN [ok |-> FALSE, err |-> "insert failed: peers option not found",
                   doc |-> indexed]
             ELSE LET pushed == PushPeers(indexed["peers"].a, input.v)
                  IN  [ok |-> pushed.ok, err |-> pushed.err,
                       doc |-> [indexed EXCEPT !["peers"] = TArr(pushed.array)]]

\* insert_toml_peers: its result and the document it leaves
insert_toml_peers(d, input) ==
    IF ~input.some THEN [ok |-> TRUE, err |-> "", doc |-> d]
    ELSE LET indexed == IndexMut(d, "peers")
         IN  IF indexed["peers"].ty # "arr"
             THEN [ok |-> FALSE, err |-> "insert failed: peers option not found",
                   doc |-> indexed]
             ELSE LET pushed == PushPeers(<<>>, input.v)
                  IN  [ok |-> pushed.ok, err |-> pushed.err,
                       doc |-> [indexed EXCEPT !["peers"] = TArr(pushed.array)]]

\* The peer lists a caller may pass
PeerInputs ==
    {NoInput,
     [some |-> TRUE, v |-> <<>>],
     [some |-> TRUE, v |-> <<Node2>>],
     [some |-> TRUE, v |-> <<Node3, Node2>>],
     [some |-> TRUE, v |-> <<Node2, Node2>>],
     [some |-> TRUE, v |-> <<PeerTable("", "")>>]}

InsertTomlPeers(input) ==
    /\ doc' = insert_toml_peers(doc, input).doc
    /\ prev_doc' = doc
    /\ edit' = [op |-> "insert_toml_peers", input |-> input,
                ok |-> insert_toml_peers(doc, input).ok,
                err |-> insert_toml_peers(doc, input).err]
    /\ UNCHANGED <<is_local, settings, apiVars, ctlVars, ioVars>>

\* The documents read from a configuration file: the test's text, the same
\* without its peers key, with a peers key that is no array, with peers
\* written as [[peers]] tables, and with a key Config does not know
FileDocs ==
    {TestTomlItems,
     Without(TestTomlItems, "peers"),
     With(TestTomlItems, "peers", TStr("node2")),
     With(TestTomlItems, "peers", TAot(<<Node2>>)),
     With(TestTomlItems, "cluster_name", TStr("lab"))}

InitEditor ==
    /\ is_local \in BOOLEAN
    /\ settings \in ValidSettings
    /\ InitApi
    /\ InitCtl
    /\ doc \in FileDocs
    /\ prev_doc = doc
    /\ edit = NoEdit
    /\ InitIo

NextEditor ==
    \/ SettingsToDoc
    \/ \E input \in PeerInputs : InsertTomlPeers(input)

SpecEditor == InitEditor /\ [][NextEditor]_vars

(* ---------------------------------------------------------------------- *)
(* Constructing a Config from a text: over the defaults, and as it stands  *)
(* ---------------------------------------------------------------------- *)
\* What a text may hold under addr_to_peers: the empty string, the sentinel,
\* addresses in several spellings, strings that are no IP:PORT, an integer
PeerAddrValues ==
    {TStr(""), TStr(DEFAULT_INVALID_ADDR_TO_PEERS), TStr("127.0.0.1:48383"),
     TStr("[::]:38370"), TStr("[0:0:0:0:0:0:0:0]:38370"),
     TStr("localhost:48383"), TStr("127.0.0.1"), TInt(48383)}

\* The texts a Config is constructed from: no key at all, the test's text,
\* and a text with two peers and a retention in hours, each without
\* addr_to_peers and with every value of PeerAddrValues
LoadBases ==
    {NoItems,
     Without(TestTomlItems, "addr_to_peers"),
     With(With(Without(TestTomlItems, "addr_to_peers"),
               "peers", TArr(<<Node2, Node3>>)), "retention", TStr("24h"))}
LoadTexts ==
    {Text(b) : b \in LoadBases}
    \cup {Text(With(b, "addr_to_peers", v)) : b \in LoadBases, v \in PeerAddrValues}

\* Settings::from_server(text)
FromServer(text) ==
    /\ loaded' = [op |-> "from_server", text |-> text,
                  ok |-> from_server(text).ok,
                  err |-> IF from_server(text).ok THEN ""
                          ELSE DeserializeConfig(text.items @@ DefaultItems).err,
                  config |-> from_server(text).settings.config]
    /\ UNCHANGED <<is_local, settings, apiVars, ctlVars, docVars, file, writer>>

\* toml::from_str::<Config>(text), as set_config reads a draft
FromStr(text) ==
    /\ loaded' = [op |-> "from_str", text |-> text,
                  ok |-> TomlFromStr(text).ok,
                  err |-> TomlFromStr(text).err,
                  config |-> TomlFromStr(text).config]
    /\ UNCHANGED <<is_local, settings, apiVars, ctlVars, docVars, file, writer>>

NextLoad ==
    \/ \E text \in LoadTexts : FromServer(text)
    \/ \E text \in LoadTexts : FromStr(text)

SpecLoad == Init /\ [][NextLoad]_vars

(* ---------------------------------------------------------------------- *)
(* write_toml_file: the document's text written over the file at path      *)
(* ---------------------------------------------------------------------- *)
\* The order in which a document's keys are written.  A DocumentMut keeps the
\* order of the text it was parsed from; the model writes Config's field
\* order, and a key Config does not know last.
KeyOrder ==
    <<"ingest_srv_addr", "publish_srv_addr", "data_dir", "retention",
      "graphql_srv_addr", "log_dir", "export_dir", "max_open_files",
      "max_mb_of_level_base", "num_of_thread", "max_sub_compactions",
      "addr_to_peers", "peers", "ack_transmission", "cluster_name">>

\* doc.to_string(), line by line
Lines(d) ==
    LET keys == SelectSeq(KeyOrder, LAMBDA k : Has(d, k))
    IN  [i \in DOMAIN keys |-> [key |-> keys[i], value |-> d[keys[i]]]]

IsPrefix(s, full) == Len(s) <= Len(full) /\ s = SubSeq(full, 1, Len(s))

\* Mutant: the file is opened with create(true) as well
OpenCreate(f) ==
    IF f.exists /\ ~f.writable
    THEN [ok |-> FALSE, err |-> "Permission denied", file |-> f]
    ELSE [ok |-> TRUE, err |-> "",
          file |-> [exists |-> TRUE, writable |-> TRUE, content |-> NoContent]]

\* OpenOptions::new().write(true).truncate(true).open(path): no create, so a
\* missing file is an error; a file that opens is cut to length 0 at once
OpenTruncate(f) ==
    IF ~f.exists
    THEN [ok |-> FALSE, err |-> "No such file or directory", file |-> f]
    ELSE IF ~f.writable
    THEN [ok |-> FALSE, err |-> "Permission denied", file |-> f]
    ELSE [ok |-> TRUE, err |-> "", file |-> [f EXCEPT !.content = NoContent]]

\* let output = doc.to_string(); ... .open(path)?
WriteTomlFileOpen ==
    /\ writer.pc = "idle"
    /\ file' = OpenTruncate(file).file
    /\ writer' = [pc |-> IF OpenTruncate(file).ok THEN "write" ELSE "failed",
                  ok |-> OpenTruncate(file).ok,
                  err |-> OpenTruncate(file).err,
                  before |-> file]
    /\ UNCHANGED <<is_local, settings, apiVars, ctlVars, docVars, loaded>>

\* writeln!(config_file, "{output}"), the output: write_all hands the text to
\* write(2), which takes as much of it as it likes each time
WriteTomlFileText(n) ==
    /\ writer.pc = "write"
    /\ n >= 1
    /\ Len(file.content.lines) + n <= Len(Lines(doc))
    /\ file' = [file EXCEPT !.content.lines =
                    SubSeq(Lines(doc), 1, Len(file.content.lines) + n)]
    /\ UNCHANGED <<is_local, settings, apiVars, ctlVars, docVars, loaded, writer>>

\* writeln!'s line break, written after the output; then Ok(())
WriteTomlFileNewline ==
    /\ writer.pc = "write"
    /\ file.content.lines = Lines(doc)
    /\ file' = [file EXCEPT !.content.newline = TRUE]
    /\ writer' = [writer EXCEPT !.pc = "done"]
    /\ UNCHANGED <<is_local, settings, apiVars, ctlVars, docVars, loaded>>

\* writeln!(..)? fails (the disk is full, say): the error is returned, the file
\* stays as far as it was written
WriteTomlFileError ==
    /\ writer.pc = "write"
    /\ writer' = [writer EXCEPT !.pc = "failed", !.ok = FALSE, !.err = "write failed"]
    /\ UNCHANGED <<is_local, settings, apiVars, ctlVars, docVars, loaded, file>>

\* The process dies during the write
Crash ==
    /\ writer.pc = "write"
    /\ writer' = [writer EXCEPT !.pc = "crashed"]
    /\ UNCHANGED <<is_local, settings, apiVars, ctlVars, docVars, loaded, file>>

\* The file as a write finds it: missing, read-only, empty, or holding the
\* test's text
OldFiles ==
    {NoFile,
     [exists |-> TRUE, writable |-> FALSE,
      content |-> [lines |-> Lines(TestTomlItems), newline |-> TRUE]],
     [exists |-> TRUE, writable |-> TRUE, content |-> NoContent],
     [exists |-> TRUE, writable |-> TRUE,
      content |-> [lines |-> Lines(TestTomlItems), newline |-> TRUE]]}

\* A process started from a local file, about to write a document it read
\* from a file or rendered from its Settings
InitFile ==
    /\ is_local = TRUE
    /\ settings \in ValidSettings
    /\ InitApi
    /\ InitCtl
    /\ doc \in FileDocs \cup settings_to_doc(settings)
    /\ prev_doc = doc
    /\ edit = NoEdit
    /\ loaded = NoLoad
    /\ file \in OldFiles
    /\ writer = [NoWriter EXCEPT !.before = file]

NextFile ==
    \/ WriteTomlFileOpen
    \/ \E n \in 1..Len(KeyOrder) : WriteTomlFileText(n)
    \/ WriteTomlFileNewline
    \/ WriteTomlFileError
    \/ Crash

SpecFile == InitFile /\ [][NextFile]_vars

(* ---------------------------------------------------------------------- *)
(* Properties                                                              *)
(* ---------------------------------------------------------------------- *)
Accepted(i) == i \in DOMAIN calls /\ calls[i].result = "true"
TasksOf(i) == {j \in DOMAIN tasks : tasks[j].call = i}
Queued == Range(chan) \cup Range(received)
MessagesOf(i) ==
    Cardinality({k \in DOMAIN chan : chan[k].call = i})
    + Cardinality({k \in DOMAIN received : received[k].call = i})
\* toml::from_str of every draft, and every rendering of every Settings,
\* worked out once
ParsedDrafts == [d \in UNION {Drafts(s) : s \in ValidSettings} |-> TomlFromStr(d)]
Renderings == [s \in ValidSettings |-> to_toml_string(s)]
Parses(draft) == ParsedDrafts[draft].ok
Differs(draft) == ParsedDrafts[draft].config # settings.config

\* C1: in local mode every setConfig call with a valid draft returns false
\* (Ok(false), no error), and after any sequence of calls no delivery task
\* exists and the reload channel has received nothing.
C1_LocalDeclines ==
    is_local =>
        /\ \A i \in DOMAIN calls :
              Parses(calls[i].draft) => calls[i].result = "false" /\ calls[i].returned
        /\ tasks = <<>>
        /\ chan = <<>>
        /\ received = <<>>

C1_Witness ==
    /\ is_local
    /\ Len(calls) >= 2
    /\ \A i \in DOMAIN calls : Parses(calls[i].draft) /\ Differs(calls[i].draft)

\* C2: config() is decided by the mode flag alone: in local mode it fails
\* with "Config is local" and returns no configuration; in remote mode it
\* returns a Config equal in every field, the peer set too, to the live
\* Settings' Config.
C2_ConfigGate ==
    query # NoQuery =>
        IF is_local
        THEN ~query.ok /\ query.err = "Config is local" /\ query.config = NoConfig
        ELSE /\ query.ok
             /\ \A f \in ConfigFields : query.config[f] = settings.config[f]

C2_Witness ==
    /\ ~is_local
    /\ query.ok
    /\ query.config.peers.some
    /\ Cardinality(query.config.peers.v) = 2
    /\ lifecycle.count > 0

\* C3: in remote mode a draft that parses and differs from the live Config
\* returns true, and for that call exactly one delivery task exists, holding
\* the draft as submitted; the task calls send once and no more, and until
\* it has, it is asleep with its timer running or about to call send; every
\* message of the call is the draft as submitted and there is at most one.
C3_ExactlyOneDelivery ==
    \A i \in DOMAIN calls :
        /\ (~is_local /\ Parses(calls[i].draft) /\ Differs(calls[i].draft))
              => calls[i].result = "true"
        /\ Accepted(i) =>
              /\ Cardinality(TasksOf(i)) = 1
              /\ \A j \in TasksOf(i) :
                    /\ tasks[j].draft = calls[i].draft
                    /\ tasks[j].attempts <= 1
                    /\ tasks[j].pc # "sleep" => tasks[j].attempts = 1
                    /\ tasks[j].pc = "sleep" =>
                          /\ tasks[j].attempts = 0
                          /\ (ENABLED Tick) \/ (ENABLED TaskWake(j))
              /\ MessagesOf(i) <= 1
              /\ \A m \in Queued : m.call = i => m.draft = calls[i].draft

C3_Witness ==
    \E i \in DOMAIN calls :
        /\ Accepted(i)
        /\ calls[i].returned
        /\ \E j \in TasksOf(i) : tasks[j].pc = "sent" /\ tasks[j].attempts = 1
        /\ \E k \in DOMAIN received :
              received[k].call = i /\ received[k].draft = calls[i].draft

\* C4: a draft reaches the reload consumer only after the setConfig call
\* that accepted it has returned true to its caller.
C4_AcceptedBeforeDelivery ==
    \A k \in DOMAIN received : calls[received[k].call].returned

\* C5: a proposal (a draft handed to the coordinator, which the API does in
\* remote mode) that is a text rendering of the live Settings' Config is
\* rejected with "No changes", which is neither the parse error nor
\* acceptance, and no delivery is scheduled for it.
C5_IdentityIsNoChange ==
    ~is_local =>
        \A i \in DOMAIN calls :
            calls[i].draft \in Renderings[settings] =>
                /\ calls[i].result = "no_change"
                /\ calls[i].returned
                /\ TasksOf(i) = {}
                /\ MessagesOf(i) = 0

C5_Witness ==
    /\ ~is_local
    /\ settings.config.peers.some
    /\ Cardinality(settings.config.peers.v) = 2
    /\ ~settings.config.addr_to_peers.some
    /\ \E i \in DOMAIN calls :
          /\ calls[i].draft \in Renderings[settings]
          /\ calls[i].result = "no_change"

\* C6: a proposal (a draft handed to the coordinator, which the API does in
\* remote mode) whose text does not parse as a Config returns the parse
\* error, schedules no delivery, and no step changes the live Settings.
C6_ParseErrorNoEffect ==
    /\ [](~is_local =>
            \A i \in DOMAIN calls :
                ~Parses(calls[i].draft) =>
                    /\ calls[i].result = "parse_error"
                    /\ calls[i].returned
                    /\ TasksOf(i) = {}
                    /\ MessagesOf(i) = 0)
    /\ [][settings' = settings]_vars

C6_Witness ==
    /\ ~is_local
    /\ Len(calls) >= 2
    /\ calls[1].draft = SyntaxErrorText /\ calls[1].result = "parse_error"
    /\ calls[2].draft = Text(NoItems) /\ calls[2].result = "parse_error"

\* C7: stop, reboot and shutdown return Ok(true) in local and in remote mode,
\* however often they are called; each can be taken in every state, with a
\* permit pending or not and a supervisor waiting or not, so none blocks.
C7_LifecycleAlwaysTrue ==
    /\ lifecycle.op # "none" => lifecycle.ok /\ lifecycle.value
    /\ ENABLED Stop
    /\ ENABLED Reboot
    /\ ENABLED Shutdown

C7_Witness ==
    /\ is_local
    /\ lifecycle.op = "stop"
    /\ lifecycle.count >= 2
    /\ lifecycle.value
    /\ notify["stop"].permit
    /\ notify["reboot"].waiting

\* What a document shows: its text, and the keys it holds
SameDocument(d1, d2) ==
    /\ DocToString(d1) = DocToString(d2)
    /\ \A k \in DOMAIN d1 \cup DOMAIN d2 : Has(d1, k) <=> Has(d2, k)
HasPeersArray(d) == Has(d, "peers") /\ d["peers"].ty = "arr"

\* C8: insert_toml_peers(doc, Some(peers)) on a document without a peers
\* array fails with "peers option not found", and every failed call leaves
\* the document showing what it showed before: the same text and the same
\* keys, the peers array neither cleared nor partly refilled.
C8_FailedInsertKeepsDocument ==
    edit.op = "insert_toml_peers" =>
        /\ (edit.input.some /\ ~HasPeersArray(prev_doc)) =>
              ~edit.ok /\ edit.err = "insert failed: peers option not found"
        /\ ~edit.ok => SameDocument(doc, prev_doc)

C8_Witness ==
    /\ edit.op = "insert_toml_peers"
    /\ ~edit.ok
    /\ edit.input.some /\ edit.input.v # <<>>
    /\ "peers" \notin DOMAIN prev_doc

C10_EveryFieldAppears ==
    edit.op = "settings_to_doc" => \A k \in ConfigFields : Has(doc, k)

\* C10 as amended: the document settings_to_doc returns holds every
\* mandatory Config field as a key, and addr_to_peers and peers exactly when
\* the Config holds a value for them.
C10_PresentFieldsAppear ==
    edit.op = "settings_to_doc" =>
        /\ \A k \in MandatoryFields : Has(doc, k)
        /\ Has(doc, "addr_to_peers") <=> settings.config.addr_to_peers.some
        /\ Has(doc, "peers") <=> settings.config.peers.some

C10_Witness ==
    /\ edit.op = "settings_to_doc"
    /\ ~settings.config.addr_to_peers.some
    /\ ~settings.config.peers.some
    /\ ~Has(doc, "addr_to_peers")
    /\ ~Has(doc, "peers")

\* The mandatory keys a construction starts from: from_server lays the text
\* over the defaults, toml::from_str takes the text as it stands
NamesEveryMandatoryField(items) == \A k \in MandatoryFields : Has(items, k)
LoadedComplete ==
    loaded.op = "from_server" \/ NamesEveryMandatoryField(loaded.text.items)
LoadedPeerAddr ==
    IF Has(loaded.text.items, "addr_to_peers")
    THEN loaded.text.items["addr_to_peers"] ELSE NoneItem

\* C11: constructing a Config never fails on a peer endpoint that is the
\* sentinel 254.254.254.254:38383, the empty string or a missing key: all
\* three give None (a failure there is a missing mandatory field only);
\* any other value gives Some(the address) if it is a valid IP:PORT string
\* and an error otherwise.
C11_PeerAddrNormalized ==
    loaded.op # "none" =>
        IF LoadedPeerAddr \in {NoneItem, TStr(""), TStr("254.254.254.254:38383")}
        THEN /\ LoadedComplete => loaded.ok
             /\ loaded.ok => loaded.config.addr_to_peers = NoneAddr
             /\ ~loaded.ok => loaded.err = "missing field"
        ELSE IF LoadedPeerAddr.ty = "str" /\ LoadedPeerAddr.s \in DOMAIN AddrSpellings
        THEN /\ LoadedComplete => loaded.ok
             /\ loaded.ok =>
                   /\ loaded.config.addr_to_peers.some
                   /\ loaded.config.addr_to_peers.v = AddrSpellings[LoadedPeerAddr.s]
        ELSE /\ ~loaded.ok
             /\ LoadedComplete => loaded.err \in {"invalid address", "invalid type"}

C11_Witness ==
    /\ loaded.op = "from_str"
    /\ LoadedPeerAddr = TStr("254.254.254.254:38383")
    /\ loaded.ok
    /\ loaded.config.addr_to_peers = NoneAddr
    /\ loaded.config.peers.some

\* The states of one proposal
Rejected(i) == i \in DOMAIN calls /\ calls[i].result \in {"parse_error", "no_change"}
Delivered(i) == \E j \in TasksOf(i) : tasks[j].pc = "sent"
DeliveryFailed(i) == \E j \in TasksOf(i) : tasks[j].pc = "failed"

C13_ConcurrentBothAccepted ==
    ~is_local =>
        \A i, k \in DOMAIN calls :
            (/\ i # k
             /\ Parses(calls[i].draft) /\ Differs(calls[i].draft)
             /\ Parses(calls[k].draft) /\ Differs(calls[k].draft)) =>
                /\ calls[i].result = "true" /\ calls[k].result = "true"
                /\ Cardinality(TasksOf(i)) = 1 /\ Cardinality(TasksOf(k)) = 1
                /\ TasksOf(i) \cap TasksOf(k) = {}
                /\ \A j \in TasksOf(k) : tasks[j].draft = calls[k].draft
                /\ ~calls[i].returned => ENABLED SetConfigReturn(i)

C13_Witness ==
    /\ ~is_local
    /\ Len(calls) >= 2
    /\ calls[1].draft = calls[2].draft
    /\ calls[1].result = "true" /\ calls[2].result = "true"
    /\ ~calls[1].returned /\ ~calls[2].returned
    /\ \A j \in DOMAIN tasks : tasks[j].pc = "sleep"
    /\ Cardinality(TasksOf(1) \cup TasksOf(2)) = 2

\* The tasks whose send has failed
FailedTasks == {j \in DOMAIN tasks : tasks[j].pc = "failed"}

\* C14: a delivery task that finds the channel closed ends in "failed": the
\* failure is logged, one line per failed task, and nothing else records it;
\* the call it belongs to keeps its result true; the task has called send
\* once, is never run again and its draft is in no queue; and no step, the
\* failing send among them, changes the live Settings or a call's result.
C14_DeliveryFailedIsLoggedOnly ==
    /\ [](/\ errlog = Cardinality(FailedTasks)
          /\ \A j \in FailedTasks :
                /\ calls[tasks[j].call].result = "true"
                /\ tasks[j].attempts = 1
                /\ MessagesOf(tasks[j].call) = 0
                /\ ~ENABLED TaskWake(j)
                /\ ~ENABLED TaskSend(j))
    /\ [][/\ settings' = settings
          /\ \A i \in DOMAIN calls : calls'[i].result = calls[i].result
          /\ \A j \in FailedTasks : tasks'[j] = tasks[j]]_vars

C14_Witness ==
    /\ ~rx_open
    /\ Cardinality(FailedTasks) = 2
    /\ errlog = 2
    /\ \E i \in DOMAIN calls : calls[i].returned
    /\ \E i \in DOMAIN calls : ~calls[i].returned

\* A signal after one completed wait of the supervisor
Woken(n) == [permit |-> FALSE, waiting |-> FALSE, wakeups |-> Min(n.wakeups + 1, MaxFires)]

\* C15: each signal holds one slot.  While a firing is stored, a further
\* firing of that signal changes nothing, and the only other thing that can
\* happen to the signal is one completed wait, which empties the slot; with
\* the slot empty a wait completes nothing: the supervisor blocks, until a
\* firing wakes it, once.  A stored firing and a blocked supervisor never
\* exist together.
C15_SingleSlotWakeup ==
    /\ [](\A sig \in Signals : ~(notify[sig].permit /\ notify[sig].waiting))
    /\ [][\A sig \in Signals :
            LET n == notify[sig]
                n2 == notify'[sig]
            IN  /\ n.permit => n2 = n \/ n2 = Woken(n)
                /\ n.waiting => n2 = n \/ n2 = Woken(n)
                /\ (~n.permit /\ ~n.waiting) =>
                      \/ n2 = n
                      \/ n2 = [n EXCEPT !.permit = TRUE]
                      \/ n2 = [n EXCEPT !.waiting = TRUE]]_vars

C15_Witness ==
    /\ lifecycle.op = "stop"
    /\ lifecycle.count >= 2
    /\ notify["stop"] = [permit |-> FALSE, waiting |-> TRUE, wakeups |-> 1]
    /\ notify["reboot"] = NoNotify["reboot"]
    /\ notify["shutdown"] = NoNotify["shutdown"]

\* C16 as stated: whatever happens during write_toml_file, a crash too, the
\* file holds its whole previous content or the whole text of the document;
\* and a call on a missing file fails and creates no file.
C16_AtomicOverwrite ==
    /\ file.exists =>
          \/ file.content = writer.before.content
          \/ file.content.lines = Lines(doc)
    /\ (writer.pc # "idle" /\ ~writer.before.exists) => ~writer.ok /\ ~file.exists

\* C16 as amended: write_toml_file cuts the file to nothing when it opens it
\* and then writes the document's text: from the open on, a crash or a failed
\* write too, the file holds the text as far as it was written, nothing of
\* its previous content, and after Ok(()) the whole text and a line break; a
\* call on a missing or read-only file fails and leaves what it found.
C16_TruncateThenWrite ==
    writer.pc # "idle" =>
        IF ~writer.before.exists \/ ~writer.before.writable
        THEN /\ writer.pc = "failed" /\ ~writer.ok
             /\ writer.err = (IF writer.before.exists THEN "Permission denied"
                               ELSE "No such file or directory")
             /\ file = writer.before
        ELSE /\ file.exists
             /\ IsPrefix(file.content.lines, Lines(doc))
             /\ writer.pc = "done" =>
                   /\ writer.ok
                   /\ file.content = [lines |-> Lines(doc), newline |-> TRUE]
             /\ writer.pc # "done" => ~file.content.newline

C16_Witness ==
    /\ writer.pc = "crashed"
    /\ writer.before.content.lines = Lines(TestTomlItems)
    /\ Len(file.content.lines) > 0
    /\ Len(file.content.lines) < Len(Lines(doc))
    /\ file.content # writer.before.content

\* The calls made with the draft of call i, and the tasks holding it
CallsWith(i) == {k \in DOMAIN calls : calls[k].draft = calls[i].draft}
TasksWith(i) == {j \in DOMAIN tasks : tasks[j].draft = calls[i].draft}

\* C17: no step changes the live Settings, setConfig's least of all, and
\* every config() query returns the Config the process started with; so in
\* remote mode a draft that was accepted once is accepted every time it is
\* sent again, never "No changes": k calls with it have k results true and k
\* delivery tasks, each of which calls send once when its sleep is over.
C17_AcceptanceNotRemembered ==
    /\ [](/\ query # NoQuery => query.ok /\ query.config = settings.config
          /\ \A i \in DOMAIN calls :
                calls[i].result = "true" =>
                    /\ \A k \in CallsWith(i) : calls[k].result = "true"
                    /\ Cardinality(TasksWith(i)) = Cardinality(CallsWith(i))
                    /\ \A j \in TasksWith(i) :
                          tasks[j].attempts = (IF tasks[j].pc = "sleep" THEN 0 ELSE 1))
    /\ [][settings' = settings]_vars

C17_Witness ==
    /\ Len(calls) >= 2
    /\ calls[1].draft = TestToml /\ calls[2].draft = TestToml
    /\ calls[1].result = "true" /\ calls[2].result = "true"
    /\ \A j \in DOMAIN tasks : tasks[j].attempts = 1
    /\ received # <<>>
    /\ query.ok /\ query.config = DefaultSettings.config

\* C18: in local mode setConfig returns Ok(false) for every draft, one that
\* does not parse and one equal to the live Config too, and never an error;
\* a call that ended in the parse error or in "No changes" was made in
\* remote mode, where a draft that does not parse gets the one and a draft
\* equal to the live Config the other.
C18_GateBeforeParse ==
    \A i \in DOMAIN calls :
        /\ is_local => calls[i].result = "false" /\ calls[i].returned
        /\ calls[i].result \in {"parse_error", "no_change"} => ~is_local
        /\ ~is_local =>
              /\ ~Parses(calls[i].draft) => calls[i].result = "parse_error"
              /\ (Parses(calls[i].draft) /\ ~Differs(calls[i].draft)) =>
                    calls[i].result = "no_change"

C18_Witness ==
    /\ is_local
    /\ Len(calls) >= 2
    /\ calls[1].draft = SyntaxErrorText /\ calls[1].result = "false"
    /\ calls[2].draft \in Renderings[settings] /\ calls[2].result = "false"

\* C19: in remote mode, with a live Config that has no peer address, a draft
\* that is a rendering of that Config with addr_to_peers set to
\* 254.254.254.254:38383 or to the empty string is rejected with
\* "No changes", spawns no delivery task and reaches no queue.
C19_SentinelDraftIsNoChange ==
    (~is_local /\ ~settings.config.addr_to_peers.some) =>
        \A i \in DOMAIN calls :
            calls[i].draft \in SentinelDraftsOf[settings] =>
                /\ calls[i].result = "no_change"
                /\ calls[i].returned
                /\ TasksOf(i) = {}
                /\ MessagesOf(i) = 0

C19_Witness ==
    /\ ~is_local
    /\ ~settings.config.addr_to_peers.some
    /\ settings.config.peers.some
    /\ Len(calls) >= 2
    /\ calls[1].draft \in SentinelDraftsOf[settings]
    /\ calls[1].draft.items["addr_to_peers"] = TStr("254.254.254.254:38383")
    /\ calls[2].draft \in SentinelDraftsOf[settings]
    /\ calls[2].draft.items["addr_to_peers"] = TStr("")
    /\ calls[1].result = "no_change" /\ calls[2].result = "no_change"

\* Whether Settings::from_server takes a text, worked out once
ServerAccepts == [d \in PartialDrafts |-> from_server(d).ok]

\* C20: a draft that leaves out a mandatory field, the empty draft too, is
\* rejected by setConfig in remote mode with the parse error (in local mode
\* the gate answers false), has no delivery task and reaches no queue,
\* though Settings::from_server takes the same text; every draft in the
\* channel or with the reload consumer names every mandatory field.
C20_DraftNotMergedOverDefaults ==
    /\ \A i \in DOMAIN calls :
          calls[i].draft \in PartialDrafts =>
              /\ ~NamesEveryMandatoryField(calls[i].draft.items)
              /\ calls[i].result = (IF is_local THEN "false" ELSE "parse_error")
              /\ calls[i].returned
              /\ TasksOf(i) = {}
              /\ MessagesOf(i) = 0
              /\ ServerAccepts[calls[i].draft]
    /\ \A m \in Queued : NamesEveryMandatoryField(m.draft.items)

C20_Witness ==
    /\ ~is_local
    /\ Len(calls) >= 2
    /\ calls[1].draft = Text(Without(TestTomlItems, "ack_transmission"))
    /\ calls[1].result = "parse_error"
    /\ calls[2].draft = TestToml
    /\ calls[2].result = "true"
    /\ \E k \in DOMAIN received : received[k].call = 2

\* C21: a mutation that finds no supervisor waiting on its signal leaves a
\* permit stored for that signal and wakes nothing; a stored permit stays
\* until a wait on the same signal takes it, which the supervisor can do at
\* once and which then completes; a mutation touches no other signal, and a
\* waiter stops waiting only when its own signal has been fired.
C21_FiringRetainedNoLeak ==
    /\ [](\A sig \in Signals : notify[sig].permit => ENABLED SupervisorWait(sig))
    /\ [][/\ lifecycle' # lifecycle =>
                LET s == lifecycle'.op
                IN  /\ ~notify[s].waiting =>
                          /\ notify'[s].permit
                          /\ notify'[s].wakeups = notify[s].wakeups
                    /\ \A o \in Signals \ {s} : notify'[o] = notify[o]
          /\ \A sig \in Signals :
                /\ notify[sig].permit =>
                      notify'[sig].permit \/ notify'[sig] = Woken(notify[sig])
                /\ (notify[sig].waiting /\ ~notify'[sig].waiting) =>
                      lifecycle'.op = sig]_vars

C21_Witness ==
    /\ lifecycle.op = "shutdown"
    /\ lifecycle.count = 1
    /\ notify["shutdown"] = [permit |-> TRUE, waiting |-> FALSE, wakeups |-> 0]
    /\ notify["stop"] = [permit |-> FALSE, waiting |-> TRUE, wakeups |-> 0]
    /\ notify["reboot"] = [permit |-> FALSE, waiting |-> TRUE, wakeups |-> 0]

====
